---- MODULE Spec2Model ----
(***************************************************************************)
(* TestSuite (kwoodman1970/TestSuite): the line reader (TestDataRaw), the  *)
(* block reader (TestData), the registry of test objects and the           *)
(* orchestrator (TestSuite::one/group/all, runTests, runTest).             *)
(*                                                                         *)
(* A text line, a test name and a test case are sequences of characters    *)
(* (one-character strings).  A C pointer that may be NULL is a sequence of *)
(* length 0 (NULL) or 1 (the pointee).                                     *)
(***************************************************************************)
EXTENDS Integers, Sequences, FiniteSets, TLC

VARIABLES
  stream,                 \* the text behind _dataStream, one element per line
  dataPos,                \* _dataStream: number of lines already extracted
  dataGood,               \* _dataStream->good()
  lineCounter,            \* TestDataRaw::_lineCounter
  lastLineRead,           \* TestData::_lastLineRead
  totalTestCases,         \* TestSuite::_totalTestCases
  totalFailedTestCases,   \* TestSuite::_totalFailedTestCases
  pc,                     \* position inside one()/group()/all()
  op,                     \* the public operation being (or last) executed
  tests,                  \* runTests: the list "tests"
  testName,               \* runTests: "testName"
  abortAll,               \* runTests: "abortAll"
  testCaseData,           \* runTest: "testCaseData"
  testCaseNum,            \* runTest: "testCaseNum"
  numFailedTestCases,     \* runTest: "numFailedTestCases"
  abortTest,              \* runTest: "abortTest"
  test,                   \* runTests: "test", the object handed to runTest
  runTestAbortAll,        \* runTest: "abortAll"
  namesRead,              \* the results of readTestName in this operation
  log,                    \* the calls of the log hooks made by the operation
  runs,                   \* number of public operations started
  prev,                   \* operation, totals and log of the operation before
  members,                \* Test::_testCase, _testData, _log of every test object
  self,                   \* the TestSuite object whose state the variables above are
  peer,                   \* the state of a second TestSuite object, if there is one
  foreign,                \* a test method has used what another TestSuite object set
  chars,                  \* the characters behind an istream, line ends included
  raw,                    \* a TestDataRaw on chars: get position, good(), _lineCounter
  returned,               \* what readLine returned since construction or reset
  errorHit,               \* the istream has failed since construction or reset
  firstPass,              \* "returned" and "errorHit" at the time of the first reset
  resets,                 \* number of calls of reset
  declared,               \* the names of the TEST objects, in order of construction
  built,                  \* number of TEST objects constructed so far
  heap,                   \* every ListNode allocated so far: its test, times deleted
  registry,               \* TestSuite::_tests: the nodes of the list, first node first
  atExitRegistered,       \* TestSuite::_atExitRegistered
  handlers,               \* number of times atExit was handed to atexit()
  selection,              \* the list "tests" of the operation in progress
  regPc,                  \* "static", "main", "op" or "exited"
  regOp,                  \* the kind of the operation in progress or last performed
  ops,                    \* number of public operations started
  teardowns,              \* number of calls of atExit
  undefined,              \* a deleted ListNode has been used or deleted again
  looked,                 \* the last call of getTest: name, list and result
  atMain                  \* the registry when main() was entered

\* the state of one TestSuite object
suiteVars == <<dataPos, dataGood, lineCounter, lastLineRead, totalTestCases,
               totalFailedTestCases, pc, op, tests, testName, abortAll, testCaseData,
               testCaseNum, numFailedTestCases, abortTest, test, runTestAbortAll,
               namesRead, log, runs, prev>>

concVars == <<self, peer, foreign>>

rawVars == <<chars, raw, returned, errorHit, firstPass, resets>>

regVars == <<declared, built, heap, registry, atExitRegistered, handlers, selection, regPc,
             regOp, ops, teardowns, undefined, looked, atMain>>

vars == <<stream, suiteVars, members, concVars, rawVars, regVars>>

-----------------------------------------------------------------------------
(* Bounds *)

MaxLines == 4
MaxRuns == 2
MaxRerunLines == 3

-----------------------------------------------------------------------------
(* Characters, lines and names *)

NULL == <<>>
Ptr(x) == <<x>>
Deref(p) == p[1]

\* isspace()
isspace(c) == c \in {" ", "\t"}

\* Test::TestResult
Pass == "pass"
Fail == "fail"
AbortThisTest == "abortThisTest"
AbortAllTests == "abortAllTests"

\* test names
NameA == <<"a">>
NameB == <<"b">>
NameG == <<"g">>

\* the lines a test data stream is made of
BlankLine == <<" ">>
CommentLine == <<"/", "/", ":">>
MarkerA == <<":", "a">>
MarkerB == <<" ", ":", "b", " ">>
MarkerG == <<":", "g">>
CasePass == <<"p">>
CaseFail == <<" ", "f">>
CaseAbortThis == <<"t">>
CaseAbortAll == <<"A">>
CaseReadOne == <<"r">>
CaseReadTwo == <<"R">>

SeqsUpTo(S, n) == UNION {[1..k -> S] : k \in 0..n}

\* streams of blocks of registered tests: every result of a test method
BlockLines == {MarkerA, MarkerB, CasePass, CaseFail, CaseAbortThis, CaseAbortAll}
\* streams with blocks whose name is the name of no registered test
UnknownLines == {MarkerG, MarkerA, CasePass, CaseAbortThis}
\* streams with blank and comment lines around and inside the blocks
LayoutLines == {BlankLine, CommentLine, MarkerA, CasePass, CaseAbortThis}
\* streams on which more than one public operation is performed
RerunLines == {MarkerA, MarkerB, CasePass, CaseAbortAll}

Streams ==
  SeqsUpTo(BlockLines, MaxLines) \cup SeqsUpTo(UnknownLines, MaxLines)
    \cup SeqsUpTo(LayoutLines, MaxLines)

-----------------------------------------------------------------------------
(* Static functions of testdata.cpp *)

RECURSIVE startOfData(_)
\* the start point is never advanced
startOfDataMutant(text) == text
startOfData(text) ==
  IF text # <<>> /\ isspace(Head(text)) THEN startOfData(Tail(text)) ELSE text

isTestName(text) == text # <<>> /\ text[1] = ":"

isCommentMutant(stringToCheck) ==
  ~(Len(stringToCheck) >= 2 /\ stringToCheck[1] = "/" /\ stringToCheck[2] = "/")
isComment(stringToCheck) ==
  Len(stringToCheck) >= 2 /\ stringToCheck[1] = "/" /\ stringToCheck[2] = "/"

RECURSIVE trimRight(_)
trimRight(s) ==
  IF Len(s) > 0 /\ isspace(s[Len(s)]) THEN trimRight(SubSeq(s, 1, Len(s) - 1)) ELSE s

\* the copy ends at the last character that is not whitespace
newStringMutant(text) == trimRight(text)
\* a copy of the characters up to the terminating zero
newString(text) == text

\* trailing whitespace is kept
extractTestNameMutant(text) == Tail(text)
extractTestName(text) == trimRight(Tail(text))

-----------------------------------------------------------------------------
(* TestDataRaw: rd is [pos, good, lineCounter] *)

Reader(p, g, c) == [pos |-> p, good |-> g, lineCounter |-> c]

\* "clear()" forgotten
resetMutant(rd) == Reader(0, rd.good, 0)
reset(rd) == Reader(0, TRUE, 0)

readLineMutant(rd) ==
  IF rd.good
    THEN IF rd.pos < Len(stream)
           THEN [line |-> Ptr(stream[rd.pos + 1]),
                 rd |-> Reader(rd.pos + 1, TRUE,
                               IF stream[rd.pos + 1] = <<>> THEN rd.lineCounter
                               ELSE rd.lineCounter + Len(stream[rd.pos + 1]))]
           ELSE [line |-> NULL, rd |-> Reader(rd.pos, FALSE, rd.lineCounter)]
    ELSE [line |-> NULL, rd |-> rd]
readLine(rd) ==
  IF rd.good
    THEN IF rd.pos < Len(stream)
           THEN [line |-> Ptr(stream[rd.pos + 1]),
                 rd |-> Reader(rd.pos + 1, TRUE, rd.lineCounter + 1)]
           ELSE [line |-> NULL, rd |-> Reader(rd.pos, FALSE, rd.lineCounter)]
    ELSE [line |-> NULL, rd |-> rd]

-----------------------------------------------------------------------------
(* TestData: readTestName and readTestCase *)

\* readTestName: "while ((*cookedLine != '\0') && isspace(*cookedLine)) ++cookedLine"
RECURSIVE cookedLineOf(_)
cookedLineOf(line) ==
  IF line # <<>> /\ isspace(Head(line)) THEN cookedLineOf(Tail(line)) ELSE line

RECURSIVE NameLoop(_)
\* one pass of the loop of readTestName on the line r.line
NameLoopFrom(r) ==
  IF r.line = NULL
    THEN [name |-> NULL, rd |-> r.rd]
    ELSE LET cookedLine == cookedLineOf(Deref(r.line))
         IN IF isTestName(cookedLine)
              THEN [name |-> Ptr(extractTestName(cookedLine)), rd |-> r.rd]
              ELSE NameLoop(readLine(r.rd))
\* the loop of readTestName; the line read is evaluated once
NameLoop(r0) == CHOOSE result \in {NameLoopFrom(r) : r \in {r0}} : TRUE

\* the name is found and the reader is left where it was
readTestNameMutant(rd, last) ==
  [name |-> NameLoop(IF last # NULL THEN [line |-> last, rd |-> rd] ELSE readLine(rd)).name,
   rd |-> rd]

\* returns [name, rd]; _lastLineRead is NULL afterwards
readTestName(rd, last) ==
  NameLoop(IF last # NULL THEN [line |-> last, rd |-> rd] ELSE readLine(rd))

RECURSIVE CaseLoop(_, _)
\* the loop buffers a name marker and goes on to the next data line
CaseLoopFromMutant(r, last) ==
  IF r.line # NULL /\ last = NULL
    THEN LET data == startOfData(Deref(r.line))
         IN IF isTestName(data)
              THEN [case |-> CaseLoop(readLine(r.rd), last).case, last |-> r.line,
                    rd |-> CaseLoop(readLine(r.rd), last).rd]
              ELSE IF Len(data) = 0 \/ isComment(data)
                     THEN CaseLoop(readLine(r.rd), last)
                     ELSE [case |-> Ptr(newString(data)), last |-> last, rd |-> r.rd]
    ELSE [case |-> NULL, last |-> last, rd |-> r.rd]

\* one pass of the loop of readTestCase on the line r.line
CaseLoopFrom(r, last) ==
  IF r.line # NULL /\ last = NULL
    THEN LET data == startOfData(Deref(r.line))
         IN IF isTestName(data)
              THEN [case |-> NULL, last |-> r.line, rd |-> r.rd]
              ELSE IF Len(data) = 0 \/ isComment(data)
                     THEN CaseLoop(readLine(r.rd), last)
                     ELSE [case |-> Ptr(newString(data)), last |-> last, rd |-> r.rd]
    ELSE [case |-> NULL, last |-> last, rd |-> r.rd]
\* the loop of readTestCase; the line read is evaluated once
CaseLoop(r0, last) == CHOOSE result \in {CaseLoopFrom(r, last) : r \in {r0}} : TRUE

readTestCaseMutant(rd, last) == CaseLoop(readLine(reset(rd)), last)
\* returns [case, last, rd]
readTestCase(rd, last) == CaseLoop(readLine(rd), last)

-----------------------------------------------------------------------------
(* Test objects and the registry *)

\* TEST(testName): an object whose name() is the macro's argument
TestObject(n) == [name |-> n]

\* the order in which the test objects are constructed
DeclaredTests == <<TestObject(NameA), TestObject(NameB)>>

\* the new node goes to the end of the list
registerTestMutant(t, list) == list \o <<t>>
\* TestSuite::registerTest: a new node in front of the list
registerTest(t, list) == <<t>> \o list

RECURSIVE RegisterAll(_, _)
RegisterAll(decls, list) ==
  IF decls = <<>> THEN list
  ELSE RegisterAll(Tail(decls), registerTest(Head(decls), list))

\* TestSuite::_tests once every static Test object is constructed
registeredTests == RegisterAll(DeclaredTests, <<>>)

\* a test method in the manner of TEST(testTestResult): the case says what
\* the method is to return
testMethod(t, caseText) ==
  IF caseText # <<>> /\ caseText[1] = "f" THEN Fail
  ELSE IF caseText # <<>> /\ caseText[1] = "t" THEN AbortThisTest
  ELSE IF caseText # <<>> /\ caseText[1] = "A" THEN AbortAllTests
  ELSE Pass

getTestMutant(name, list) == IF list = <<>> THEN NULL ELSE Ptr(Head(list))
RECURSIVE getTest(_, _)
\* the scan goes on after a match: the last test of that name is returned
getTestLastMutant(name, list) ==
  IF list = <<>> THEN NULL
  ELSE IF getTest(name, Tail(list)) # NULL THEN getTest(name, Tail(list))
  ELSE IF Head(list).name = name THEN Ptr(Head(list))
  ELSE NULL
getTest(name, list) ==
  IF list = <<>> THEN NULL
  ELSE IF Head(list).name = name THEN Ptr(Head(list))
  ELSE getTest(name, Tail(list))

-----------------------------------------------------------------------------
(* The log hooks: one record per call *)

Event(h, n, k, l, p, x, f) ==
  [text |-> x, pos |-> p, line |-> l, name |-> n, hook |-> h, num |-> k, failed |-> f]

logHeader == Event("logHeader", <<>>, 0, 0, 0, <<>>, 0)
logFooter == Event("logFooter", <<>>, 0, 0, 0, <<>>, 0)
logNoValidTestNames == Event("noValidTestNames", <<>>, 0, 0, 0, <<>>, 0)
logUnknownTestName(n) == Event("logUnknownTestName", n, 0, 0, 0, <<>>, 0)
logTestHeader(t) == Event("logTestHeader", t.name, 0, 0, 0, <<>>, 0)
\* p is the number of lines extracted from the stream when the case was built
logTestCasePassed(t, k, l, p, x) == Event("logTestCasePassed", t.name, k, l, p, x, 0)
logTestCaseFailed(t, k, l, p, x) == Event("logTestCaseFailed", t.name, k, l, p, x, 0)
logTestAborted(t) == Event("logTestAborted", t.name, 0, 0, 0, <<>>, 0)
logAllTestsAborted == Event("logAllTestsAborted", <<>>, 0, 0, 0, <<>>, 0)
logTestFooter(t, k, f) == Event("logTestFooter", t.name, k, 0, 0, <<>>, f)

-----------------------------------------------------------------------------
(* TestSuite::getTests *)

RECURSIVE getTests(_, _, _)
getTestsMutant(testNames, list, out) ==
  IF testNames = <<>> THEN [tests |-> list, log |-> out]
  ELSE LET t == getTest(Head(testNames), registeredTests)
       IN IF t = NULL
            THEN getTests(Tail(testNames), list, out)
            ELSE getTests(Tail(testNames), <<Deref(t)>> \o list, out)
\* returns [tests, log]
getTests(testNames, list, out) ==
  IF testNames = <<>> THEN [tests |-> list, log |-> out]
  ELSE LET t == getTest(Head(testNames), registeredTests)
       IN IF t = NULL
            THEN getTests(Tail(testNames), list, Append(out, logUnknownTestName(Head(testNames))))
            ELSE getTests(Tail(testNames), <<Deref(t)>> \o list, out)

RECURSIVE getTestsVa(_, _, _, _)
\* the new node goes to the end of the list
getTestsVaMutant(firstTestName, argList, list, out) ==
  IF firstTestName = NULL THEN [tests |-> list, log |-> out]
  ELSE LET t == getTest(Deref(firstTestName), registeredTests)
           next == IF argList = <<>> THEN NULL ELSE Head(argList)
           rest == IF argList = <<>> THEN <<>> ELSE Tail(argList)
       IN IF t = NULL
            THEN getTestsVa(next, rest, list,
                            Append(out, logUnknownTestName(Deref(firstTestName))))
            ELSE getTestsVa(next, rest, list \o <<Deref(t)>>, out)
\* getTests(firstTestName, argList): the names are pointers, argList is what
\* va_arg has still to give and ends with the NULL that the caller passed;
\* returns [tests, log]
getTestsVa(firstTestName, argList, list, out) ==
  IF firstTestName = NULL THEN [tests |-> list, log |-> out]
  ELSE LET t == getTest(Deref(firstTestName), registeredTests)
           next == IF argList = <<>> THEN NULL ELSE Head(argList)
           rest == IF argList = <<>> THEN <<>> ELSE Tail(argList)
       IN IF t = NULL
            THEN getTestsVa(next, rest, list,
                            Append(out, logUnknownTestName(Deref(firstTestName))))
            ELSE getTestsVa(next, rest, <<Deref(t)>> \o list, out)

-----------------------------------------------------------------------------
(* The public operations *)

OpOne(n) == [kind |-> "one", names |-> <<n>>]
OpGroup(ns) == [kind |-> "group", names |-> ns]
OpAll == [kind |-> "all", names |-> <<>>]

OneArgs == {NameA, NameG}
GroupArgs == {<<NameG, NameB>>, <<NameG, NameG>>}

\* a stream without the data line, if any, that precedes every block
Blocks(s) == IF s # <<>> /\ s[1] = CasePass THEN Tail(s) ELSE s

RerunStream ==
  /\ Len(Blocks(stream)) <= MaxRerunLines
  /\ \A i \in 1..Len(Blocks(stream)) : Blocks(stream)[i] \in RerunLines

\* how many public operations main() performs on this TestSuite object
RunLimit == IF RerunStream /\ peer = NULL THEN MaxRuns ELSE 1

Summary == [op |-> op, cases |-> totalTestCases, failed |-> totalFailedTestCases, log |-> log]

\* TestSuite::prepareForTesting: the reader and both totals afterwards
prepareForTestingMutant(rd) ==
  [totalTestCases |-> totalTestCases, totalFailedTestCases |-> totalFailedTestCases,
   rd |-> reset(rd)]
prepareForTesting(rd) ==
  [totalTestCases |-> 0, totalFailedTestCases |-> 0, rd |-> reset(rd)]

\* prepareForTesting(), logHeader() and the choice of the tests to run
Begin(o, sel) ==
  /\ pc = "idle"
  /\ runs < RunLimit
  /\ runs' = runs + 1
  /\ prev' = IF runs > 0 THEN Ptr(Summary) ELSE NULL
  /\ op' = o
  /\ LET p == prepareForTesting(Reader(dataPos, dataGood, lineCounter))
     IN /\ totalTestCases' = p.totalTestCases
        /\ totalFailedTestCases' = p.totalFailedTestCases
        /\ dataPos' = p.rd.pos
        /\ dataGood' = p.rd.good
        /\ lineCounter' = p.rd.lineCounter
  /\ log' = <<logHeader>> \o sel.log
  /\ tests' = sel.tests
  /\ namesRead' = <<>>
  /\ pc' = "runTests"
  /\ UNCHANGED <<stream, lastLineRead, testName, abortAll, testCaseData, testCaseNum,
                 numFailedTestCases, abortTest, test, runTestAbortAll>>
  /\ UNCHANGED <<members, concVars, rawVars, regVars>>

one(n) == Begin(OpOne(n), getTests(<<n>>, <<>>, <<>>))

group(ns) == Begin(OpGroup(ns), getTests(ns, <<>>, <<>>))

\* the arguments of group(firstTestName, ...) after the first, for the names
\* ns: a pointer for every name, then NULL
VaArgs(ns) == [i \in 1..Len(ns) |-> IF i < Len(ns) THEN Ptr(ns[i + 1]) ELSE NULL]

\* group(firstTestName, ...)
groupVa(ns) == Begin(OpGroup(ns), getTestsVa(Ptr(ns[1]), VaArgs(ns), <<>>, <<>>))

all == Begin(OpAll, [tests |-> registeredTests, log |-> <<>>])

-----------------------------------------------------------------------------
(* TestSuite::runTests *)

SetReader(rd) ==
  /\ dataPos' = rd.pos
  /\ dataGood' = rd.good
  /\ lineCounter' = rd.lineCounter

\* testName = _testData.readTestName()
NextTestName ==
  LET r == readTestName(Reader(dataPos, dataGood, lineCounter), lastLineRead)
  IN /\ testName' = r.name
     /\ lastLineRead' = NULL
     /\ SetReader(r.rd)
     /\ namesRead' = Append(namesRead, [name |-> r.name, last |-> lastLineRead])

RunTestsNoTests ==
  /\ pc = "runTests"
  /\ tests = <<>>
  /\ log' = Append(log, logNoValidTestNames)
  /\ pc' = "footer"
  /\ UNCHANGED <<stream, dataPos, dataGood, lineCounter, lastLineRead, totalTestCases,
                 totalFailedTestCases, op, tests, testName, abortAll, testCaseData,
                 testCaseNum, numFailedTestCases, abortTest, test, runTestAbortAll,
                 namesRead, runs, prev>>
  /\ UNCHANGED <<members, concVars, rawVars, regVars>>

RunTestsFirstName ==
  /\ pc = "runTests"
  /\ tests # <<>>
  /\ abortAll' = FALSE
  /\ NextTestName
  /\ pc' = "loop"
  /\ UNCHANGED <<stream, totalTestCases, totalFailedTestCases, op, tests, testCaseData,
                 testCaseNum, numFailedTestCases, abortTest, test, runTestAbortAll,
                 log, runs, prev>>
  /\ UNCHANGED <<members, concVars, rawVars, regVars>>

\* the name read is not the name of a test in "tests"
LoopSkip ==
  /\ pc = "loop"
  /\ ~abortAll /\ testName # NULL
  /\ getTest(Deref(testName), tests) = NULL
  /\ NextTestName
  /\ UNCHANGED <<stream, totalTestCases, totalFailedTestCases, pc, op, tests, abortAll,
                 testCaseData, testCaseNum, numFailedTestCases, abortTest, test,
                 runTestAbortAll, log, runs, prev>>
  /\ UNCHANGED <<members, concVars, rawVars, regVars>>

\* runTest(*test) up to its main loop
LoopRunTest ==
  /\ pc = "loop"
  /\ ~abortAll /\ testName # NULL
  /\ getTest(Deref(testName), tests) # NULL
  /\ test' = getTest(Deref(testName), tests)
  /\ testCaseNum' = 0
  /\ abortTest' = FALSE
  /\ runTestAbortAll' = FALSE
  /\ numFailedTestCases' = 0
  /\ LET r == readTestCase(Reader(dataPos, dataGood, lineCounter), lastLineRead)
     IN /\ testCaseData' = r.case
        /\ lastLineRead' = r.last
        /\ SetReader(r.rd)
  /\ log' = Append(log, logTestHeader(Deref(test')))
  /\ pc' = "runTest"
  /\ UNCHANGED <<stream, totalTestCases, totalFailedTestCases, op, tests, testName,
                 abortAll, namesRead, runs, prev>>
  /\ UNCHANGED <<members, concVars, rawVars, regVars>>

LoopExit ==
  /\ pc = "loop"
  /\ abortAll \/ testName = NULL
  /\ pc' = "footer"
  /\ UNCHANGED <<stream, dataPos, dataGood, lineCounter, lastLineRead, totalTestCases,
                 totalFailedTestCases, op, tests, testName, abortAll, testCaseData,
                 testCaseNum, numFailedTestCases, abortTest, test, runTestAbortAll,
                 namesRead, log, runs, prev>>
  /\ UNCHANGED <<members, concVars, rawVars, regVars>>

-----------------------------------------------------------------------------
(* TestSuite::runTest *)

\* "numFailedTestCases++" unless the test method returned pass
\* only the result fail is counted
countFailedAbortMutant(n, testResult) == IF testResult = Fail THEN n + 1 ELSE n

countFailedMutant(n, testResult) ==
  IF testResult = Pass THEN n ELSE IF testResult = Fail THEN n + 1 ELSE n + 2
countFailed(n, testResult) == IF testResult = Pass THEN n ELSE n + 1

\* "abortTest = true" unless the test method returned pass or fail
stopsTestMutant(testResult) == testResult # Pass
stopsTest(testResult) == testResult \notin {Pass, Fail}

\* "abortAll = true" when the test method returned abortAllTests
stopsAllMutant(testResult) == FALSE
stopsAll(testResult) == testResult = AbortAllTests

\* "return !abortAll"
runTestResultMutant(aTest, aAll) == ~aTest
runTestResult(aTest, aAll) == ~aAll

\* the hooks called for one test case, given the result of the test method
\* the abort notice of a test is logged after every failure
CaseHooksMutant(t, k, l, p, x, testResult) ==
  IF testResult = Pass THEN <<logTestCasePassed(t, k, l, p, x)>>
  ELSE <<logTestCaseFailed(t, k, l, p, x)>> \o
       (IF testResult = AbortAllTests THEN <<logAllTestsAborted>> ELSE <<logTestAborted(t)>>)
CaseHooks(t, k, l, p, x, testResult) ==
  IF testResult = Pass THEN <<logTestCasePassed(t, k, l, p, x)>>
  ELSE <<logTestCaseFailed(t, k, l, p, x)>> \o
       (IF testResult = Fail THEN <<>>
        ELSE IF testResult = AbortAllTests THEN <<logAllTestsAborted>>
        ELSE <<logTestAborted(t)>>)

\* "testCaseNum++"
nextTestCaseNumMutant(n) == n
nextTestCaseNum(n) == n + 1

\* TestCase::TestCase; "by" tells the TestSuite object in whose runTest the
\* TestCase lives
TestCase(number, counter, dataAsText, by) ==
  [number |-> number, lineCounter |-> counter, dataAsText |-> dataAsText, by |-> by]

\* Test::Test: nothing has been handed to the test object yet
NoData == [log |-> NULL, testCase |-> NULL, testData |-> NULL, dangling |-> FALSE]

\* Test::setData: the test object keeps what it is handed in its private
\* members; "by" is the TestSuite object that owns _testData and _log
setData(m, t, testCase, by) ==
  [m EXCEPT ![t.name] = [testCase |-> Ptr(testCase), testData |-> Ptr(by), log |-> Ptr(by),
                         dangling |-> FALSE]]

\* Test::testCase(), the TestCase a test method works on
testCaseOf(m, t) == Deref(m[t.name].testCase)

\* the end of an iteration of runTest: its TestCase is destroyed, and every
\* _testCase that points to it is left dangling
destroyed(m, testCase) ==
  [n \in DOMAIN m |->
     IF m[n].testCase = Ptr(testCase) THEN [m[n] EXCEPT !.dangling = TRUE] ELSE m[n]]

\* what a test method can return: it reads its TestCase, and a read through a
\* dangling _testCase can give anything
Results(t, data) ==
  IF data.dangling THEN {Pass, Fail, AbortThisTest, AbortAllTests}
  ELSE {testMethod(t, Deref(data.testCase).dataAsText)}

\* a test method in the manner of the README ("testData.readLine() can be
\* called to read in additional lines"): the case says how many lines it reads
extraLines(caseText) ==
  IF caseText # <<>> /\ caseText[1] = "r" THEN 1
  ELSE IF caseText # <<>> /\ caseText[1] = "R" THEN 2
  ELSE 0

\* k calls of readLine on a TestDataRaw
RECURSIVE readLines(_, _)
readLines(rd, k) == IF k = 0 THEN rd ELSE readLines(readLine(rd).rd, k - 1)

\* the TestSuite's reader once the test method has read k lines: setData takes
\* the TestDataRaw by value, so the test method reads through a copy, which
\* extracts from the same istream and counts the lines in a _lineCounter of
\* its own
afterTestMethod(rd, k) ==
  LET copy == readLines(rd, k)
  IN Reader(copy.pos, copy.good, rd.lineCounter)

\* from the result of the test method to the end of the iteration; p is the
\* number of lines extracted from the stream when testCase was built, rd the
\* reader of the TestSuite when the test method has returned
Iteration(testCase, p, testResult, rd) ==
  /\ numFailedTestCases' = countFailed(numFailedTestCases, testResult)
  /\ abortTest' = stopsTest(testResult)
  /\ runTestAbortAll' = stopsAll(testResult)
  /\ log' = log \o CaseHooks(Deref(test), testCase.number, testCase.lineCounter, p,
                             testCase.dataAsText, testResult)
  /\ LET r == readTestCase(rd, lastLineRead)
     IN /\ testCaseData' = r.case
        /\ lastLineRead' = r.last
        /\ SetReader(r.rd)

\* one iteration of the main loop
RunTestCase ==
  /\ pc = "runTest"
  /\ ~abortTest /\ testCaseData # NULL
  /\ testCaseNum' = nextTestCaseNum(testCaseNum)
  /\ LET testCase == TestCase(testCaseNum', lineCounter, Deref(testCaseData), self)
     IN /\ members' = destroyed(setData(members, Deref(test), testCase, self), testCase)
        /\ Iteration(testCase, dataPos,
                     testMethod(Deref(test), testCaseOf(members', Deref(test)).dataAsText),
                     afterTestMethod(Reader(dataPos, dataGood, lineCounter),
                                     extraLines(testCaseOf(members', Deref(test)).dataAsText)))
  /\ UNCHANGED <<stream, totalTestCases, totalFailedTestCases, pc, op, tests, testName,
                 abortAll, test, namesRead, runs, prev>>
  /\ UNCHANGED <<concVars, rawVars, regVars>>

\* the end of runTest and the rest of the iteration of runTests
RunTestReturn ==
  /\ pc = "runTest"
  /\ abortTest \/ testCaseData = NULL
  /\ testCaseData' = NULL
  /\ log' = Append(log, logTestFooter(Deref(test), testCaseNum, numFailedTestCases))
  /\ totalTestCases' = totalTestCases + testCaseNum
  /\ totalFailedTestCases' = totalFailedTestCases + numFailedTestCases
  /\ abortAll' = ~runTestResult(abortTest, runTestAbortAll)
  /\ IF ~abortAll'
       THEN NextTestName
       ELSE UNCHANGED <<testName, lastLineRead, dataPos, dataGood, lineCounter, namesRead>>
  /\ pc' = "loop"
  /\ UNCHANGED <<stream, op, tests, testCaseNum, numFailedTestCases, abortTest, test,
                 runTestAbortAll, runs, prev>>
  /\ UNCHANGED <<members, concVars, rawVars, regVars>>

\* deleteList(tests) and logFooter()
Finish ==
  /\ pc = "footer"
  /\ log' = Append(log, logFooter)
  /\ pc' = "idle"
  /\ UNCHANGED <<stream, dataPos, dataGood, lineCounter, lastLineRead, totalTestCases,
                 totalFailedTestCases, op, tests, testName, abortAll, testCaseData,
                 testCaseNum, numFailedTestCases, abortTest, test, runTestAbortAll,
                 namesRead, runs, prev>>
  /\ UNCHANGED <<members, concVars, rawVars, regVars>>

-----------------------------------------------------------------------------

\* TestSuite::TestSuite
InitSuite ==
  /\ dataPos = 0
  /\ dataGood = TRUE
  /\ lineCounter = 0
  /\ lastLineRead = NULL
  /\ totalTestCases = 0
  /\ totalFailedTestCases = 0
  /\ pc = "idle"
  /\ op = OpAll
  /\ tests = <<>>
  /\ testName = NULL
  /\ abortAll = FALSE
  /\ testCaseData = NULL
  /\ testCaseNum = 0
  /\ numFailedTestCases = 0
  /\ abortTest = FALSE
  /\ test = NULL
  /\ runTestAbortAll = FALSE
  /\ namesRead = <<>>
  /\ log = <<>>
  /\ runs = 0
  /\ prev = NULL

\* Test::Test for every test object of the program
InitTests ==
  members = [n \in {DeclaredTests[i].name : i \in 1..Len(DeclaredTests)} |-> NoData]

\* no second TestSuite object
InitAlone ==
  /\ self = 1
  /\ peer = NULL
  /\ foreign = FALSE

\* no TestDataRaw of its own
InitNoRaw ==
  /\ chars = <<>>
  /\ raw = Reader(0, TRUE, 0)
  /\ returned = <<>>
  /\ errorHit = FALSE
  /\ firstPass = NULL
  /\ resets = 0

\* no TEST object, and no process to construct one
InitNoReg ==
  /\ declared = <<>>
  /\ built = 0
  /\ heap = <<>>
  /\ registry = <<>>
  /\ atExitRegistered = FALSE
  /\ handlers = 0
  /\ selection = <<>>
  /\ regPc = "none"
  /\ regOp = "none"
  /\ ops = 0
  /\ teardowns = 0
  /\ undefined = FALSE
  /\ looked = NULL
  /\ atMain = NULL

Init ==
  /\ stream \in Streams
  /\ InitSuite
  /\ InitTests
  /\ InitAlone
  /\ InitNoRaw
  /\ InitNoReg

Next ==
  \/ \E n \in OneArgs : one(n)
  \/ \E ns \in GroupArgs : group(ns)
  \/ all
  \/ RunTestsNoTests
  \/ RunTestsFirstName
  \/ LoopSkip
  \/ LoopRunTest
  \/ LoopExit
  \/ RunTestCase
  \/ RunTestReturn
  \/ Finish

-----------------------------------------------------------------------------
(* Two TestSuite objects, each in a thread of its own, with one registry.    *)
(* The two streams are two istreams over equal text.  The variables of a     *)
(* TestSuite object describe the object whose thread takes the next step;    *)
(* the state of the other one is in "peer".                                  *)

MaxConcLines == 3

ConcLines == {MarkerA, MarkerG, CasePass, CaseFail}
ConcStreams == SeqsUpTo(ConcLines, MaxConcLines)

SuiteState ==
  [dataPos |-> dataPos, dataGood |-> dataGood, lineCounter |-> lineCounter,
   lastLineRead |-> lastLineRead, totalTestCases |-> totalTestCases,
   totalFailedTestCases |-> totalFailedTestCases, pc |-> pc, op |-> op, tests |-> tests,
   testName |-> testName, abortAll |-> abortAll, testCaseData |-> testCaseData,
   testCaseNum |-> testCaseNum, numFailedTestCases |-> numFailedTestCases,
   abortTest |-> abortTest, test |-> test, runTestAbortAll |-> runTestAbortAll,
   namesRead |-> namesRead, log |-> log, runs |-> runs, prev |-> prev]

\* the scheduler lets the other thread run
Switch ==
  /\ peer # NULL
  /\ peer' = Ptr(SuiteState)
  /\ self' = 3 - self
  /\ dataPos' = Deref(peer).dataPos
  /\ dataGood' = Deref(peer).dataGood
  /\ lineCounter' = Deref(peer).lineCounter
  /\ lastLineRead' = Deref(peer).lastLineRead
  /\ totalTestCases' = Deref(peer).totalTestCases
  /\ totalFailedTestCases' = Deref(peer).totalFailedTestCases
  /\ pc' = Deref(peer).pc
  /\ op' = Deref(peer).op
  /\ tests' = Deref(peer).tests
  /\ testName' = Deref(peer).testName
  /\ abortAll' = Deref(peer).abortAll
  /\ testCaseData' = Deref(peer).testCaseData
  /\ testCaseNum' = Deref(peer).testCaseNum
  /\ numFailedTestCases' = Deref(peer).numFailedTestCases
  /\ abortTest' = Deref(peer).abortTest
  /\ test' = Deref(peer).test
  /\ runTestAbortAll' = Deref(peer).runTestAbortAll
  /\ namesRead' = Deref(peer).namesRead
  /\ log' = Deref(peer).log
  /\ runs' = Deref(peer).runs
  /\ prev' = Deref(peer).prev
  /\ UNCHANGED <<stream, members, foreign, rawVars, regVars>>

\* an iteration of the main loop of runTest up to
\* "test.setData(testCase, _testData, *_log)"
CallSetData ==
  /\ pc = "runTest"
  /\ ~abortTest /\ testCaseData # NULL
  /\ testCaseNum' = nextTestCaseNum(testCaseNum)
  /\ members' = setData(members, Deref(test),
                        TestCase(testCaseNum', lineCounter, Deref(testCaseData), self), self)
  /\ pc' = "testMethod"
  /\ UNCHANGED <<stream, dataPos, dataGood, lineCounter, lastLineRead, totalTestCases,
                 totalFailedTestCases, op, tests, testName, abortAll, testCaseData,
                 numFailedTestCases, abortTest, test, runTestAbortAll, namesRead, log,
                 runs, prev>>
  /\ UNCHANGED <<concVars, rawVars, regVars>>

\* "test.testMethod()" and the rest of the iteration
CallTestMethod ==
  /\ pc = "testMethod"
  /\ LET testCase == TestCase(testCaseNum, lineCounter, Deref(testCaseData), self)
         data == members[Deref(test).name]
     IN /\ \E testResult \in Results(Deref(test), data) :
              Iteration(testCase, dataPos, testResult,
                        afterTestMethod(Reader(dataPos, dataGood, lineCounter),
                                        extraLines(testCase.dataAsText)))
        /\ foreign' = (foreign \/ data # setData(members, Deref(test), testCase, self)[Deref(test).name])
        /\ members' = destroyed(members, testCase)
  /\ pc' = "runTest"
  /\ UNCHANGED <<stream, totalTestCases, totalFailedTestCases, op, tests, testName,
                 abortAll, testCaseNum, test, namesRead, runs, prev>>
  /\ UNCHANGED <<self, peer, rawVars, regVars>>

InitConc ==
  /\ stream \in ConcStreams
  /\ InitSuite
  /\ InitTests
  /\ self = 1
  /\ peer = Ptr(SuiteState)
  /\ foreign = FALSE
  /\ InitNoRaw
  /\ InitNoReg

NextConc ==
  \/ all
  \/ RunTestsFirstName
  \/ LoopSkip
  \/ LoopRunTest
  \/ LoopExit
  \/ CallSetData
  \/ CallTestMethod
  \/ RunTestReturn
  \/ Finish
  \/ Switch

-----------------------------------------------------------------------------
(* TestDataRaw on the characters of its istream: readLine and reset as they  *)
(* are written, get by get.  The device behind the istream may fail.         *)

MaxChars == 4
MaxResets == 1

RawChars == {"\n", "x", "y"}
Texts == SeqsUpTo(RawChars, MaxChars)

\* the device never fails
NoFailure == 0 - 1

\* istream::get(char&): the next character, or none with good() false when
\* the characters are exhausted or when the device fails; failAt is the number
\* of characters the device delivers before it fails
get(rd, failAt) ==
  IF rd.pos < Len(chars) /\ rd.pos # failAt
    THEN [c |-> Ptr(chars[rd.pos + 1]), rd |-> Reader(rd.pos + 1, TRUE, rd.lineCounter)]
    ELSE [c |-> NULL, rd |-> Reader(rd.pos, FALSE, rd.lineCounter)]

RECURSIVE LineLoop(_, _, _)
\* "while (_dataStream->good() && (inputChar != '\n'))" and what follows it;
\* g is the result of the last get
LineLoop(g, lineAsStream, failAt) ==
  IF g.rd.good /\ Deref(g.c) # "\n"
    THEN LineLoop(get(g.rd, failAt), Append(lineAsStream, Deref(g.c)), failAt)
    ELSE [line |-> Ptr(lineAsStream),
          rd |-> Reader(g.rd.pos, g.rd.good, g.rd.lineCounter + 1)]

\* TestDataRaw::readLine, returns [line, rd]
rawReadLineMutant(rd, failAt) ==
  IF rd.good
    THEN LineLoop(get(rd, failAt), <<>>, failAt)
    ELSE [line |-> NULL, rd |-> rd]
rawReadLine(rd, failAt) ==
  IF rd.good
    THEN LET g == get(rd, failAt)
         IN IF g.rd.good THEN LineLoop(g, <<>>, failAt) ELSE [line |-> NULL, rd |-> g.rd]
    ELSE [line |-> NULL, rd |-> rd]

\* the results of readLine that are none, at the end of "returned"
RECURSIVE NonesAtEnd(_)
NonesAtEnd(rs) ==
  IF rs # <<>> /\ rs[Len(rs)].line = NULL THEN 1 + NonesAtEnd(SubSeq(rs, 1, Len(rs) - 1)) ELSE 0

\* a call of readLine; the caller goes on at most once after a none
RawReadLine ==
  /\ NonesAtEnd(returned) < 2
  /\ \E failAt \in {NoFailure} \cup (IF errorHit THEN {} ELSE raw.pos..(Len(chars) - 1)) :
        LET r == rawReadLine(raw, failAt)
        IN /\ failAt # NoFailure => (r.rd.pos = failAt /\ ~r.rd.good)
           /\ raw' = r.rd
           /\ returned' = Append(returned, [line |-> r.line, counter |-> r.rd.lineCounter])
           /\ errorHit' = (errorHit \/ failAt # NoFailure)
  /\ UNCHANGED <<chars, firstPass, resets>>
  /\ UNCHANGED <<stream, suiteVars, members, concVars, regVars>>

\* a call of reset
RawReset ==
  /\ resets < MaxResets
  /\ resets' = resets + 1
  /\ raw' = reset(raw)
  /\ firstPass' = IF resets = 0 THEN Ptr([returned |-> returned, errorHit |-> errorHit])
                  ELSE firstPass
  /\ returned' = <<>>
  /\ errorHit' = FALSE
  /\ UNCHANGED chars
  /\ UNCHANGED <<stream, suiteVars, members, concVars, regVars>>

\* TestDataRaw::TestDataRaw on an istream that is good()
InitRaw ==
  /\ chars \in Texts
  /\ raw = Reader(0, TRUE, 0)
  /\ returned = <<>>
  /\ errorHit = FALSE
  /\ firstPass = NULL
  /\ resets = 0
  /\ stream = <<>>
  /\ InitSuite
  /\ InitTests
  /\ InitAlone
  /\ InitNoReg

NextRaw ==
  \/ RawReadLine
  \/ RawReset

-----------------------------------------------------------------------------
(* The registry and the lists of ListNodes, node by node.  A list is the     *)
(* sequence of its nodes, first node first; a node is its index in "heap".   *)
(* The process constructs its static TEST objects, enters main(), performs   *)
(* public operations and exits; atExit is the routine handed to atexit().    *)

MaxTests == 3
MaxRegOps == 2
MaxTeardowns == 2

RegNames == {NameA, NameB}
Declarations == SeqsUpTo(RegNames, MaxTests)
LookupNames == {NameA, NameB, NameG}
RegGroupArgs == {<<NameB, NameA>>, <<NameA, NameA>>, <<NameG, NameB>>}

\* the k-th TEST object of the program
TestAt(k) == [name |-> declared[k], id |-> k]

\* TestSuite::ListNode::ListNode
ListNode(t) == [test |-> t, deletes |-> 0]

\* the test objects of a list, in list order: current->test(), current->next()
TestsIn(h, list) == [i \in 1..Len(list) |-> TestAt(h[list[i]].test)]

\* some node of the list has been deleted already
Dangling(h, list) == \E i \in 1..Len(list) : h[list[i]].deletes > 0

\* TestSuite::deleteList: "delete" on every node of the list
deleteList(h, list) ==
  [n \in 1..Len(h) |->
     [h[n] EXCEPT !.deletes = @ + Cardinality({i \in 1..Len(list) : list[i] = n})]]

\* what deleteList can leave behind: on a list with a deleted node it reads
\* and deletes freed memory, and may stop after any number of nodes
DeleteOutcomes(h, list) ==
  {deleteList(h, SubSeq(list, 1, k)) :
     k \in IF Dangling(h, list) THEN 0..Len(list) ELSE {Len(list)}}

RECURSIVE getTestNodes(_, _, _)
\* the list returned is the registry itself
getTestNodesMutant(testNames, list, h) == [tests |-> registry, heap |-> h]
\* TestSuite::getTests with its ListNodes: returns [tests, heap]
getTestNodes(testNames, list, h) ==
  IF testNames = <<>> THEN [tests |-> list, heap |-> h]
  ELSE LET t == getTest(Head(testNames), TestsIn(h, registry))
       IN IF t = NULL
            THEN getTestNodes(Tail(testNames), list, h)
            ELSE getTestNodes(Tail(testNames), <<Len(h) + 1>> \o list,
                              Append(h, ListNode(Deref(t).id)))

\* a call getTest(name, list)
Looked(name, list) ==
  Ptr([name |-> name, scope |-> TestsIn(heap, list),
       result |-> getTest(name, TestsIn(heap, list))])

\* TestSuite::Test::Test: TestSuite::registerTest(this)
Construct ==
  /\ regPc = "static"
  /\ built < Len(declared)
  /\ built' = built + 1
  /\ handlers' = IF atExitRegistered THEN handlers ELSE handlers + 1
  /\ atExitRegistered' = TRUE
  /\ heap' = Append(heap, ListNode(built + 1))
  /\ registry' = registerTest(Len(heap) + 1, registry)
  /\ UNCHANGED <<declared, selection, regPc, regOp, ops, teardowns, undefined, looked, atMain>>
  /\ UNCHANGED <<stream, suiteVars, members, concVars, rawVars>>

\* every static object is constructed: main() starts
EnterMain ==
  /\ regPc = "static"
  /\ built = Len(declared)
  /\ regPc' = "main"
  /\ atMain' = Ptr([registry |-> registry, tests |-> TestsIn(heap, registry)])
  /\ UNCHANGED <<declared, built, heap, registry, atExitRegistered, handlers, selection,
                 regOp, ops, teardowns, undefined, looked>>
  /\ UNCHANGED <<stream, suiteVars, members, concVars, rawVars>>

\* one() and group() up to runTests: "tests = getTests(...)"
Select(kind, names) ==
  /\ regPc = "main"
  /\ ops < MaxRegOps
  /\ ops' = ops + 1
  /\ regOp' = kind
  /\ LET r == getTestNodes(names, <<>>, heap)
     IN /\ selection' = r.tests
        /\ heap' = r.heap
  /\ looked' = Looked(names[Len(names)], registry)
  /\ regPc' = "op"
  /\ UNCHANGED <<declared, built, registry, atExitRegistered, handlers, teardowns,
                 undefined, atMain>>
  /\ UNCHANGED <<stream, suiteVars, members, concVars, rawVars>>

\* all() up to runTests: "runTests(_tests)"
SelectAll ==
  /\ regPc = "main"
  /\ ops < MaxRegOps
  /\ ops' = ops + 1
  /\ regOp' = "all"
  /\ selection' = registry
  /\ regPc' = "op"
  /\ UNCHANGED <<declared, built, heap, registry, atExitRegistered, handlers, teardowns,
                 undefined, looked, atMain>>
  /\ UNCHANGED <<stream, suiteVars, members, concVars, rawVars>>

\* runTests: "test = getTest(testName, tests)" for a name read from the stream
LookUp(name) ==
  /\ regPc = "op"
  /\ selection # <<>>
  /\ looked' = Looked(name, selection)
  /\ UNCHANGED <<declared, built, heap, registry, atExitRegistered, handlers, selection,
                 regPc, regOp, ops, teardowns, undefined, atMain>>
  /\ UNCHANGED <<stream, suiteVars, members, concVars, rawVars>>

\* the end of the operation: one() and group() call deleteList(tests), all() does not
Return ==
  /\ regPc = "op"
  /\ heap' = IF regOp = "all" THEN heap ELSE deleteList(heap, selection)
  /\ selection' = <<>>
  /\ regPc' = "main"
  /\ UNCHANGED <<declared, built, registry, atExitRegistered, handlers, regOp, ops,
                 teardowns, undefined, looked, atMain>>
  /\ UNCHANGED <<stream, suiteVars, members, concVars, rawVars>>

\* TestSuite::atExit: deleteList(_tests); _tests keeps its value
atExit ==
  /\ undefined' = (undefined \/ Dangling(heap, registry))
  /\ heap' \in DeleteOutcomes(heap, registry)
  /\ teardowns' = teardowns + 1
  /\ UNCHANGED <<declared, built, registry, atExitRegistered, handlers, selection, regOp,
                 ops, looked, atMain>>
  /\ UNCHANGED <<stream, suiteVars, members, concVars, rawVars>>

\* main() returns: the routine registered with atexit() is called
Exit ==
  /\ regPc = "main"
  /\ handlers > 0
  /\ regPc' = "exited"
  /\ atExit

\* main() returns and no routine is registered
ExitNoHandler ==
  /\ regPc = "main"
  /\ handlers = 0
  /\ regPc' = "exited"
  /\ UNCHANGED <<declared, built, heap, registry, atExitRegistered, handlers, selection,
                 regOp, ops, teardowns, undefined, looked, atMain>>
  /\ UNCHANGED <<stream, suiteVars, members, concVars, rawVars>>

\* teardown run once more
AtExitAgain ==
  /\ regPc = "exited"
  /\ teardowns < MaxTeardowns
  /\ regPc' = regPc
  /\ atExit

InitReg ==
  /\ declared \in Declarations
  /\ built = 0
  /\ heap = <<>>
  /\ registry = <<>>
  /\ atExitRegistered = FALSE
  /\ handlers = 0
  /\ selection = <<>>
  /\ regPc = "static"
  /\ regOp = "none"
  /\ ops = 0
  /\ teardowns = 0
  /\ undefined = FALSE
  /\ looked = NULL
  /\ atMain = NULL
  /\ stream = <<>>
  /\ InitSuite
  /\ InitTests
  /\ InitAlone
  /\ InitNoRaw

NextReg ==
  \/ Construct
  \/ EnterMain
  \/ \E n \in LookupNames : Select("one", <<n>>)
  \/ \E ns \in RegGroupArgs : Select("group", ns)
  \/ SelectAll
  \/ \E n \in LookupNames : LookUp(n)
  \/ Return
  \/ Exit
  \/ ExitNoHandler
  \/ AtExitAgain

-----------------------------------------------------------------------------
(* The stream as the input format describes it, independently of the readers *)

Min(S) == CHOOSE x \in S : \A y \in S : x <= y
Max(S) == CHOOSE x \in S : \A y \in S : x >= y

\* index of the first character that is not whitespace, Len + 1 if there is none
FirstInk(line) == Min({i \in 1..Len(line) : line[i] \notin {" ", "\t"}} \cup {Len(line) + 1})
LastInk(line) == Max({i \in 1..Len(line) : line[i] \notin {" ", "\t"}} \cup {0})

IsBlankLine(line) == FirstInk(line) > Len(line)
IsMarkerLine(line) == ~IsBlankLine(line) /\ line[FirstInk(line)] = ":"
IsCommentLine(line) ==
  /\ FirstInk(line) < Len(line)
  /\ line[FirstInk(line)] = "/"
  /\ line[FirstInk(line) + 1] = "/"
IsDataLine(line) == ~IsBlankLine(line) /\ ~IsMarkerLine(line) /\ ~IsCommentLine(line)

MarkerName(line) == SubSeq(line, FirstInk(line) + 1, LastInk(line))
DataText(line) == SubSeq(line, FirstInk(line), Len(line))

Markers == {m \in 1..Len(stream) : IsMarkerLine(stream[m])}
DataLines == {j \in 1..Len(stream) : IsDataLine(stream[j])}

\* the marker that governs line j, 0 before the first marker
BlockOf(j) == Max({m \in Markers : m < j} \cup {0})
\* the data lines of the block opened by the marker at line m (m = 0: the
\* lines before the first marker)
BlockData(m) == {j \in DataLines : BlockOf(j) = m}

RECURSIVE Ascending(_)
\* the elements of a set of numbers in ascending order
Ascending(S) == IF S = {} THEN <<>> ELSE <<Min(S)>> \o Ascending(S \ {Min(S)})

\* is the name of the marker at line m the name of a test in list?
Selected(m, list) == \E i \in 1..Len(list) : list[i].name = MarkerName(stream[m])
Registered(n) == \E i \in 1..Len(registeredTests) : registeredTests[i].name = n

IsCase(e) == e.hook \in {"logTestCasePassed", "logTestCaseFailed"}
\* the indices in the log of the test cases applied
Cases == {i \in 1..Len(log) : IsCase(log[i])}
HasHook(h) == \E i \in 1..Len(log) : log[i].hook = h
NoAbort == ~HasHook("logTestAborted") /\ ~HasHook("logAllTestsAborted")

\* a public operation has run to its end
Finished == pc = "idle" /\ runs > 0

\* the positions of the cases applied from the block opened at line m
RECURSIVE PosIn(_, _)
PosIn(events, m) ==
  IF events = <<>> THEN <<>>
  ELSE (IF IsCase(Head(events)) /\ BlockOf(Head(events).pos) = m
          THEN <<Head(events).pos>> ELSE <<>>)
       \o PosIn(Tail(events), m)

-----------------------------------------------------------------------------
(* Claims *)

\* C1: the total of failed test cases never exceeds the total of test cases,
\* in every state of every operation, the failed cases of the block being run
\* never exceed its cases, and every per-test footer logs failed <= cases.
C1_FailedAtMostCases ==
  /\ totalFailedTestCases <= totalTestCases
  /\ numFailedTestCases <= testCaseNum
  /\ \A i \in 1..Len(log) : log[i].hook = "logTestFooter" => log[i].failed <= log[i].num

C1_Witness ==
  /\ Finished
  /\ totalFailedTestCases > 0
  /\ totalFailedTestCases < totalTestCases
  /\ HasHook("logTestFooter")

\* C2: an operation that repeats the operation before it on the same object
\* and stream ends with the same totals and the same sequence of hook calls.
C2_RerunSame ==
  (Finished /\ prev # NULL /\ Deref(prev).op = op) =>
     /\ Deref(prev).cases = totalTestCases
     /\ Deref(prev).failed = totalFailedTestCases
     /\ Deref(prev).log = log

\* C3: no test case is applied from a block whose name is not in the
\* selection, every case counted in the totals is a case that was applied,
\* and, when no test aborts, a selected block that follows an unselected one
\* has exactly its own data lines applied, in order.
C3_UnselectedBlockSkipped ==
  /\ \A i \in Cases :
        LET m == BlockOf(log[i].pos) IN m > 0 => Selected(m, tests)
  /\ Finished => totalTestCases = Cardinality(Cases)
  /\ (Finished /\ NoAbort /\ tests # <<>>) =>
        \A m \in Markers :
           (Selected(m, tests) /\ \E u \in Markers : u < m /\ ~Selected(u, tests))
              => PosIn(log, m) = Ascending(BlockData(m))

C3_Witness ==
  /\ Finished /\ NoAbort
  /\ \E u \in Markers, m \in Markers :
        /\ u < m
        /\ ~Selected(u, tests) /\ BlockData(u) # {}
        /\ Selected(m, tests) /\ BlockData(m) # {}
        /\ PosIn(log, m) = Ascending(BlockData(m))

\* the indices in the log of the cases for which the test method returned
\* abortThisTest
AbortedThis == {i \in 1..(Len(log) - 1) : IsCase(log[i]) /\ log[i + 1].hook = "logTestAborted"}

\* C4: after abortThisTest no further case of that block is applied, and,
\* unless some test aborts all testing, every later selected block that has a
\* data line has its first data line applied as case 1.
C4_AbortThisTest ==
  \A i \in AbortedThis :
     /\ \A k \in (i + 1)..Len(log) :
           IsCase(log[k]) => BlockOf(log[k].pos) # BlockOf(log[i].pos)
     /\ (Finished /\ ~HasHook("logAllTestsAborted")) =>
           \A m \in Markers :
              (m > log[i].pos /\ Selected(m, tests) /\ BlockData(m) # {}) =>
                 \E k \in (i + 1)..Len(log) :
                    /\ IsCase(log[k])
                    /\ log[k].pos = Min(BlockData(m))
                    /\ log[k].num = 1
                    /\ log[k].name = MarkerName(stream[m])

C4_Witness ==
  /\ Finished
  /\ \E i \in AbortedThis : \E k \in (i + 1)..Len(log) :
        /\ IsCase(log[k])
        /\ log[k].num = 1
        /\ BlockOf(log[k].pos) > log[i].pos

\* C5: once a test method has returned abortAllTests, no test method is
\* invoked again in that operation.
C5_AbortAllTests ==
  \A i \in 1..Len(log) :
     log[i].hook = "logAllTestsAborted" =>
        \A k \in (i + 1)..Len(log) : ~IsCase(log[k]) /\ log[k].hook # "logTestHeader"

C5_Witness ==
  /\ Finished
  /\ \E i \in 2..Len(log) :
        /\ log[i].hook = "logAllTestsAborted"
        /\ \E m \in Markers :
              m > log[i - 1].pos /\ Selected(m, tests) /\ BlockData(m) # {}

\* the indices in the log of the cases for which the test method returned fail
Failed == {i \in 1..Len(log) :
             /\ log[i].hook = "logTestCaseFailed"
             /\ (i < Len(log) => log[i + 1].hook \notin {"logTestAborted", "logAllTestsAborted"})}

\* the data lines of the same block that follow line j
RestOfBlock(j) == {n \in BlockData(BlockOf(j)) : n > j}

\* C6: after a test method returns fail, the next data line of the block, if
\* there is one, is the next test case and goes to the same test method.
C6_FailContinues ==
  \A i \in Failed :
     RestOfBlock(log[i].pos) # {} =>
        LET n == Min(RestOfBlock(log[i].pos))
        IN IF i < Len(log)
             THEN /\ IsCase(log[i + 1])
                  /\ log[i + 1].pos = n
                  /\ log[i + 1].name = log[i].name
                  /\ log[i + 1].num = log[i].num + 1
             ELSE /\ pc = "runTest"
                  /\ ~abortTest
                  /\ dataPos = n
                  /\ testCaseData = Ptr(DataText(stream[n]))

C6_Witness ==
  \E i \in Failed : i < Len(log) /\ IsCase(log[i + 1]) /\ log[i + 1].pos > log[i].pos

C8_UnknownNameLogged ==
  Finished =>
     /\ \A i \in 1..Len(namesRead) :
           (namesRead[i].name # NULL /\ ~Registered(Deref(namesRead[i].name))) =>
              \E k \in 1..Len(log) : log[k] = logUnknownTestName(Deref(namesRead[i].name))
     /\ \A i \in Cases :
           LET m == BlockOf(log[i].pos)
           IN m > 0 => Registered(MarkerName(stream[m]))

\* C9: only data lines are test cases, and, when no test aborts, the cases
\* applied from a selected block are exactly its data lines, in order and
\* numbered from 1: comment and blank lines inside it do not end it.
C9_TrivialLinesIgnored ==
  /\ \A i \in Cases :
        /\ log[i].pos \in DataLines
        /\ ~IsBlankLine(log[i].text)
        /\ ~IsCommentLine(log[i].text)
  /\ (Finished /\ NoAbort /\ tests # <<>>) =>
        \A m \in Markers :
           Selected(m, tests) =>
              /\ PosIn(log, m) = Ascending(BlockData(m))
              /\ \A i \in Cases :
                    BlockOf(log[i].pos) = m =>
                       log[i].num = Cardinality({j \in BlockData(m) : j <= log[i].pos})

C9_Witness ==
  /\ Finished /\ NoAbort
  /\ \E i \in Cases, k \in Cases :
        LET a == log[i].pos
            b == log[k].pos
        IN /\ BlockOf(a) = BlockOf(b)
           /\ BlockOf(a) > 0
           /\ \E j \in (a + 1)..(b - 1) : IsCommentLine(stream[j]) \/ IsBlankLine(stream[j])

\* the names of the markers of the stream, in stream order
RECURSIVE NamesOf(_)
NamesOf(ms) == IF ms = <<>> THEN <<>> ELSE <<MarkerName(stream[Head(ms)])>> \o NamesOf(Tail(ms))

RECURSIVE NamesReturned(_)
NamesReturned(ns) ==
  IF ns = <<>> THEN <<>>
  ELSE (IF Head(ns).name = NULL THEN <<>> ELSE <<Deref(Head(ns).name)>>)
       \o NamesReturned(Tail(ns))

\* C10: a readTestName that finds a marker buffered by readTestCase returns
\* the name of that marker, and in an operation that is not ended by
\* abortAllTests readTestName returns the name of every marker of the stream
\* exactly once, in stream order.
C10_EveryMarkerOnce ==
  /\ \A i \in 1..Len(namesRead) :
        namesRead[i].last # NULL =>
           namesRead[i].name = Ptr(MarkerName(Deref(namesRead[i].last)))
  /\ (Finished /\ tests # <<>> /\ ~HasHook("logAllTestsAborted")) =>
        NamesReturned(namesRead) = NamesOf(Ascending(Markers))

C12_SelectedBlocksOnly ==
  /\ \A i \in Cases :
        LET m == BlockOf(log[i].pos)
        IN /\ m > 0
           /\ MarkerName(stream[m]) = log[i].name
           /\ getTest(log[i].name, tests) = Ptr(TestObject(log[i].name))
  /\ (Finished /\ NoAbort /\ tests # <<>>) =>
        \A m \in Markers :
           Selected(m, tests) => PosIn(log, m) = Ascending(BlockData(m))

\* the names among ns that no registered test has, in the order of ns
RECURSIVE Unknown(_)
Unknown(ns) ==
  IF ns = <<>> THEN <<>>
  ELSE (IF Registered(Head(ns)) THEN <<>> ELSE <<Head(ns)>>) \o Unknown(Tail(ns))

\* the names logged as unknown, in the order of the log
RECURSIVE LoggedUnknown(_)
LoggedUnknown(events) ==
  IF events = <<>> THEN <<>>
  ELSE (IF Head(events).hook = "logUnknownTestName" THEN <<Head(events).name>> ELSE <<>>)
       \o LoggedUnknown(Tail(events))

RECURSIVE UnknownEvents(_)
UnknownEvents(ns) ==
  IF ns = <<>> THEN <<>> ELSE <<logUnknownTestName(Head(ns))>> \o UnknownEvents(Tail(ns))

\* C13: in one and group every requested name that no registered test has is
\* logged as unknown, once for each time it was requested, and is not in the
\* selection, while every requested name of a registered test is; when the
\* selection is empty the operation reads no line, applies no test case,
\* leaves both totals at zero and ends with the log: header, the unknown
\* names, the notice that no valid test names were provided, footer.
C13_UnknownRequested ==
  (runs > 0 /\ op.kind \in {"one", "group"}) =>
     /\ LoggedUnknown(log) = Unknown(op.names)
     /\ \A i \in 1..Len(tests) :
           /\ Registered(tests[i].name)
           /\ \E k \in 1..Len(op.names) : op.names[k] = tests[i].name
     /\ \A k \in 1..Len(op.names) :
           Registered(op.names[k]) => getTest(op.names[k], tests) # NULL
     /\ tests = <<>> =>
           /\ dataPos = 0 /\ lineCounter = 0 /\ dataGood
           /\ namesRead = <<>>
           /\ Cases = {} /\ ~HasHook("logTestHeader")
           /\ totalTestCases = 0 /\ totalFailedTestCases = 0
           /\ Finished =>
                 log = <<logHeader>> \o UnknownEvents(op.names)
                         \o <<logNoValidTestNames, logFooter>>

C13_Witness ==
  /\ Finished
  /\ op = OpGroup(<<NameG, NameG>>)
  /\ LoggedUnknown(log) = <<NameG, NameG>>
  /\ HasHook("noValidTestNames")
  /\ stream # <<>>

\* C14: in every operation the header hook is called exactly once and is the
\* first hook called, the stream is rewound and both totals are zero when
\* the driving loop is entered, every other hook is called between header and
\* footer, and the footer hook is called exactly once, as the last hook of
\* the operation, also with an empty selection and after abortAllTests.
C14_PhaseOrder ==
  runs > 0 =>
     /\ log # <<>>
     /\ log[1] = logHeader
     /\ \A i \in 2..Len(log) : log[i].hook # "logHeader"
     /\ \A i \in 1..Len(log) : log[i].hook = "logFooter" => (i = Len(log) /\ pc = "idle")
     /\ pc = "idle" => log[Len(log)] = logFooter
     /\ pc = "runTests" =>
           /\ dataPos = 0 /\ lineCounter = 0 /\ dataGood
           /\ totalTestCases = 0 /\ totalFailedTestCases = 0
           /\ \A i \in 2..Len(log) : log[i].hook = "logUnknownTestName"

C14_Witness ==
  /\ Finished
  /\ prev # NULL
  /\ Deref(prev).cases > 0
  /\ HasHook("logAllTestsAborted")
  /\ log[1] = logHeader
  /\ log[Len(log)] = logFooter

\* the place of the test called n in a list of tests, 0 if it is not there
PlaceIn(n, list) == Min({i \in 1..Len(list) : list[i].name = n} \cup {Len(list) + 1}) % (Len(list) + 1)

\* C15: the test cases of an operation are applied in the order of their
\* lines in the stream, whatever the order of the tests in the selection and
\* in the registry, and the cases of one block are applied one after the
\* other, with no case of another block in between.
C15_StreamOrder ==
  /\ \A i \in Cases, k \in Cases :
        i < k =>
           /\ log[i].pos < log[k].pos
           /\ BlockOf(log[i].pos) <= BlockOf(log[k].pos)
  /\ \A i \in Cases, k \in Cases :
        (i < k /\ log[i].name # log[k].name) =>
           \E h \in (i + 1)..(k - 1) :
              log[h].hook = "logTestHeader" /\ log[h].name = log[k].name

\* a test that is later in the selection and in the registry has its block
\* first in the stream, and is performed first
C15_Witness ==
  /\ Finished
  /\ \E i \in Cases, k \in Cases :
        /\ i < k
        /\ PlaceIn(log[i].name, tests) > PlaceIn(log[k].name, tests)
        /\ PlaceIn(log[i].name, registeredTests) > PlaceIn(log[k].name, registeredTests)
        /\ PlaceIn(log[k].name, tests) > 0

\* both TestSuite objects have run the same operation to its end
BothFinished ==
  /\ peer # NULL
  /\ Finished
  /\ Deref(peer).pc = "idle" /\ Deref(peer).runs > 0
  /\ Deref(peer).op = op /\ Deref(peer).runs = runs

\* C16: with two TestSuite objects running concurrently on streams of their
\* own and sharing the registry, every call of a test method finds in its
\* test object the test case, the line source and the log that its own
\* TestSuite object has set, and two TestSuite objects that perform the same
\* operations on equal text end with equal totals and equal logs, as they do
\* when each runs alone.
C16_ConcurrentSafe ==
  /\ ~foreign
  /\ BothFinished =>
        /\ Deref(peer).log = log
        /\ Deref(peer).totalTestCases = totalTestCases
        /\ Deref(peer).totalFailedTestCases = totalFailedTestCases

SpecConc == InitConc /\ [][NextConc]_vars

\* the text of "chars" as lines: a line ends at its line end or, for the
\* last one, where the text ends
LineEnds == {i \in 1..Len(chars) : chars[i] = "\n"}
NumLines ==
  Cardinality(LineEnds) + (IF Len(chars) > 0 /\ chars[Len(chars)] # "\n" THEN 1 ELSE 0)
\* the k-th line end, Len(chars) + 1 if there is none
LineEnd(k) ==
  IF k <= Cardinality(LineEnds)
    THEN CHOOSE i \in LineEnds : Cardinality({j \in LineEnds : j < i}) = k - 1
    ELSE Len(chars) + 1
\* the k-th line, without its line end
Line(k) == SubSeq(chars, (IF k = 1 THEN 1 ELSE LineEnd(k - 1) + 1), LineEnd(k) - 1)

\* C17: as long as the device does not fail, the k-th call of readLine since
\* construction or reset returns the k-th line of the text without its line
\* end (an empty line, not none, for a line with no characters) and leaves
\* the line counter at k; once the lines are exhausted every call returns
\* none and the counter stays at the number of lines.
C17_ReadLine ==
  ~errorHit =>
     /\ \A k \in 1..Len(returned) :
           IF k <= NumLines
             THEN returned[k] = [line |-> Ptr(Line(k)), counter |-> k]
             ELSE returned[k] = [line |-> NULL, counter |-> NumLines]
     /\ raw.lineCounter = Min({Len(returned), NumLines})

C17_Witness ==
  /\ ~errorHit
  /\ Len(returned) = 4
  /\ returned[1].line # NULL /\ Deref(returned[1].line) # <<>>
  /\ returned[2].line = Ptr(<<>>)
  /\ returned[3].line = NULL
  /\ returned[4].line = NULL
  /\ raw.lineCounter = 2

\* C18: readLine returns none or a whole line of the text, never a part of
\* one, and the call in which the device fails returns none.
C18_ErrorIsEndOfStream ==
  /\ \A k \in 1..Len(returned) :
        returned[k].line # NULL => (k <= NumLines /\ returned[k].line = Ptr(Line(k)))
  /\ errorHit => returned[Len(returned)].line = NULL

\* C19: right after reset the reader is as its constructor leaves it, and,
\* as long as the device does not fail, the calls of readLine after a reset
\* return the same lines with the same line counters as the calls made on the
\* newly constructed reader did, also when those had reached the end.
C19_ResetLikeFresh ==
  resets > 0 =>
     /\ returned = <<>> => raw = Reader(0, TRUE, 0)
     /\ (~errorHit /\ ~Deref(firstPass).errorHit) =>
           \A k \in 1..Min({Len(returned), Len(Deref(firstPass).returned)}) :
              returned[k] = Deref(firstPass).returned[k]

C19_Witness ==
  /\ resets > 0
  /\ ~errorHit /\ ~Deref(firstPass).errorHit
  /\ Len(Deref(firstPass).returned) = 3
  /\ Deref(firstPass).returned[3].line = NULL
  /\ Len(returned) = 3
  /\ returned[1].line # NULL
  /\ returned[2].line # NULL

SpecRaw == InitRaw /\ [][NextRaw]_vars

-----------------------------------------------------------------------------
(* Single lines of every shape, read by readTestName and by readTestCase *)

MaxLineChars == 3

LineChars == {" ", "\t", ":", "/", "a"}
Lines == SeqsUpTo(LineChars, MaxLineChars)
\* the line alone, where readTestName meets it, and the line after a marker,
\* where readTestCase (test selected) or readTestName (test not selected) meets it
LineStreams == {<<l>> : l \in Lines} \cup {<<MarkerA, l>> : l \in Lines}

InitLines ==
  /\ stream \in LineStreams
  /\ InitSuite
  /\ InitTests
  /\ InitAlone
  /\ InitNoRaw
  /\ InitNoReg

\* the classes of the input format that a line belongs to; Data is "anything else"
Classes(line) ==
  LET rest == DataText(line)
  IN {c \in {"Comment", "NameMarker", "Blank"} :
        \/ c = "Comment" /\ Len(rest) >= 2 /\ rest[1] = "/" /\ rest[2] = "/"
        \/ c = "NameMarker" /\ rest # <<>> /\ rest[1] = ":"
        \/ c = "Blank" /\ rest = <<>>}
Class(line) == IF Classes(line) = {} THEN "Data" ELSE CHOOSE c \in Classes(line) : TRUE

\* the line under examination and its line number
TheLine == stream[Len(stream)]
\* the first operation has ended and has asked for the test names of the stream
NamesAsked == Finished /\ runs = 1 /\ namesRead # <<>>
\* readTestName has met the line: it is alone, or the block before it was skipped
MetByReadTestName == NamesAsked /\ (Len(stream) = 1 \/ ~HasHook("logTestHeader"))
\* readTestCase has met the line: the test of the marker before it was run
MetByReadTestCase == NamesAsked /\ Len(stream) = 2 /\ HasHook("logTestHeader")

\* what the readers made of the line
NameFound == namesRead[Len(stream)].name
Buffered == namesRead[2].last = Ptr(TheLine)
AppliedAs(x) ==
  \E i \in Cases : log[i].line = 2 /\ log[i].text = x /\ log[i].name = NameA
Applied == \E i \in Cases : log[i].line = 2

SpecLines == InitLines /\ [][Next]_vars

-----------------------------------------------------------------------------

\* the number of per-test headers logged for the name n
Headers(n) == Cardinality({i \in 1..Len(log) : log[i].hook = "logTestHeader" /\ log[i].name = n})
\* the markers of the stream whose name, as the input format defines it, is n
MarkersNamed(n) == {m \in Markers : MarkerName(stream[m]) = n}
TestNames(list) == {list[i].name : i \in 1..Len(list)}

\* C21: the name that readTestName returns for a name marker is the text after
\* the ":" without its trailing whitespace (whitespace between the ":" and the
\* name stays), and a block is run exactly when that name is equal, character
\* by character, to the name of a test of the selection: one per-test header
\* for every marker with such a name, none for any other name.
C21_NameTrimmed ==
  NamesAsked =>
    LET ms == Ascending(Markers)
    IN /\ Len(namesRead) = Len(ms) + 1
       /\ \A i \in 1..Len(ms) :
            LET line == stream[ms[i]]
            IN namesRead[i].name = Ptr(SubSeq(line, FirstInk(line) + 1, LastInk(line)))
       /\ namesRead[Len(ms) + 1].name = NULL
       /\ \A n \in TestNames(tests) : Headers(n) = Cardinality(MarkersNamed(n))
       /\ \A i \in 1..Len(log) :
            log[i].hook = "logTestHeader" => log[i].name \in TestNames(tests)

\* the marker ":a" followed by whitespace has run test a
C21_Witness ==
  /\ NamesAsked
  /\ stream = <<<<":", "a", "\t">>>>
  /\ namesRead[1].name = Ptr(NameA)
  /\ Headers(NameA) = 1

-----------------------------------------------------------------------------

\* the text of a line from its first character that is not whitespace up to
\* its last one that is not
Trimmed(line) == SubSeq(line, FirstInk(line), LastInk(line))
\* the text of a line from its first character that is not whitespace to its end
LeftTrimmed(line) == SubSeq(line, FirstInk(line), Len(line))

\* the first operation on the stream has ended
FirstFinished == Finished /\ runs = 1

-----------------------------------------------------------------------------

\* the data lines before the first marker of the stream
StrayLines == {j \in DataLines : BlockOf(j) = 0}

\* C23: a data line before the first name marker of the stream is skipped in
\* silence: no test case is applied from it, no hook is called for it, the
\* totals count no case for it, and the first name that an operation reads is
\* the name of the first marker of the stream.
C23_StraySkipped ==
  /\ \A i \in Cases : log[i].line \notin StrayLines /\ log[i].pos \notin StrayLines
  /\ (StrayLines # {} /\ Markers = {}) => (totalTestCases = 0 /\ Cases = {})
  /\ (StrayLines # {} /\ Markers # {} /\ namesRead # <<>>) =>
       namesRead[1].name = Ptr(MarkerName(stream[Min(Markers)]))

-----------------------------------------------------------------------------

\* the nodes of the registry, and the nodes that getTests allocated
RegistryNodes == {registry[i] : i \in 1..Len(registry)}
SelectionNodes == (1..Len(heap)) \ RegistryNodes

SpecReg == InitReg /\ [][NextReg]_vars

-----------------------------------------------------------------------------

\* main() is running: every TEST object is constructed, the process has not exited
InMain == regPc \in {"main", "op"}

\* C25: while main() runs, whatever public operations have been performed, the
\* registry holds the nodes and the test objects it held when main() was
\* entered, in the same order, and none of its nodes has been deleted; the list
\* that one or group builds is made of nodes of its own, one for each requested
\* name that is registered, none of them deleted while the operation runs, and
\* each of them deleted exactly once when the operation has returned.
C25_RegistryUntouched ==
  InMain =>
    /\ registry = Deref(atMain).registry
    /\ TestsIn(heap, registry) = Deref(atMain).tests
    /\ \A n \in RegistryNodes : heap[n].deletes = 0
    /\ ~undefined
    /\ (regPc = "op" /\ regOp # "all") =>
         /\ \A i \in 1..Len(selection) :
              /\ selection[i] \in SelectionNodes
              /\ heap[selection[i]].deletes = 0
              /\ \A j \in 1..Len(selection) : selection[i] = selection[j] => i = j
         /\ \A n \in SelectionNodes :
              heap[n].deletes = 0 => \E i \in 1..Len(selection) : selection[i] = n
    /\ (regPc = "op" /\ regOp = "all") => selection = registry
    /\ regPc = "main" => \A n \in SelectionNodes : heap[n].deletes = 1

\* two operations have returned, the second of which was a group that built a
\* list of two nodes for the same test object
C25_Witness ==
  /\ regPc = "main"
  /\ ops = 2
  /\ Len(registry) = 2
  /\ Cardinality(SelectionNodes) >= 3
  /\ \E n \in SelectionNodes : n < Len(heap) /\ heap[n].test = heap[Len(heap)].test
  /\ \A n \in SelectionNodes : heap[n].deletes = 1

-----------------------------------------------------------------------------

\* C26: registration prepends: when k test objects have been constructed, the
\* i-th test of the registry is the object constructed as number k + 1 - i, so
\* that the list handed to runTests by all() visits the test objects in the
\* reverse of the order of their registration, the last one registered first.
C26_ReverseRegistration ==
  /\ regPc \in {"static", "main", "op"} =>
       /\ Len(registry) = built
       /\ \A i \in 1..built :
            /\ heap[registry[i]].test = built + 1 - i
            /\ TestsIn(heap, registry)[i].name = declared[built + 1 - i]
  /\ (regPc = "op" /\ regOp = "all") =>
       \A i \in 1..Len(selection) :
         TestsIn(heap, selection)[i] = TestAt(Len(declared) + 1 - i)

\* all() runs on a registry of three test objects, the first two with one name
C26_Witness ==
  /\ regPc = "op" /\ regOp = "all"
  /\ declared = <<NameA, NameA, NameB>>
  /\ Len(selection) = 3
  /\ TestsIn(heap, selection)[1] = TestAt(3)

\* C27: getTest(name, list) returns the first test object in the order of the
\* list whose name is equal to name, and NULL when the list, which is the
\* registry or the list of an operation and may be empty, holds no test object
\* of that name.
C27_FirstExactMatch ==
  looked # NULL =>
    LET call == Deref(looked)
        matches == {i \in 1..Len(call.scope) : call.scope[i].name = call.name}
    IN call.result = IF matches = {} THEN NULL ELSE Ptr(call.scope[Min(matches)])

\* a lookup in a list that holds two test objects of the name looked up,
\* after a test object of another name
C27_Witness ==
  /\ looked # NULL
  /\ Len(Deref(looked).scope) = 3
  /\ Deref(looked).scope[1].name # Deref(looked).name
  /\ Deref(looked).scope[2].name = Deref(looked).name
  /\ Deref(looked).scope[3].name = Deref(looked).name
  /\ Deref(looked).result = Ptr(Deref(looked).scope[2])

-----------------------------------------------------------------------------

\* what the test method returned for the test case of log[i]
ResultOf(i) == testMethod([name |-> log[i].name], log[i].text)
\* the hook called right after log[i], "" when log[i] is the last call so far
HookAfter(i) == IF i < Len(log) THEN log[i + 1].hook ELSE ""
AbortNotices == {"logTestAborted", "logAllTestsAborted"}

\* C28: the hooks called for an invocation of a test method depend on its
\* result only: pass calls the hook for a passed case and no other; fail calls
\* the hook for a failed case and no other; abortThisTest calls the hook for a
\* failed case and then the abort notice of that test; abortAllTests calls the
\* hook for a failed case and then the notice that all tests are aborted; and
\* an abort notice is logged nowhere else.
C28_HooksByResult ==
  /\ \A i \in Cases :
       /\ ResultOf(i) = Pass =>
            log[i].hook = "logTestCasePassed" /\ HookAfter(i) \notin AbortNotices
       /\ ResultOf(i) = Fail =>
            log[i].hook = "logTestCaseFailed" /\ HookAfter(i) \notin AbortNotices
       /\ ResultOf(i) = AbortThisTest =>
            /\ log[i].hook = "logTestCaseFailed"
            /\ HookAfter(i) = "logTestAborted"
            /\ log[i + 1].name = log[i].name
       /\ ResultOf(i) = AbortAllTests =>
            log[i].hook = "logTestCaseFailed" /\ HookAfter(i) = "logAllTestsAborted"
  /\ \A i \in 1..Len(log) :
       log[i].hook \in AbortNotices =>
         /\ i > 1 /\ (i - 1) \in Cases
         /\ ResultOf(i - 1) = (IF log[i].hook = "logTestAborted" THEN AbortThisTest
                               ELSE AbortAllTests)

\* one block with a case that passes, one that fails and one that aborts the test
C28_Witness ==
  /\ Finished
  /\ stream = <<MarkerA, CasePass, CaseFail, CaseAbortThis>>
  /\ Cardinality(Cases) = 3
  /\ HasHook("logTestAborted")

-----------------------------------------------------------------------------
(* Test methods that read lines of their own from the stream *)

MaxPassLines == 4

PassLines == {MarkerA, CasePass, CaseReadOne, CaseReadTwo}
PassStreams == SeqsUpTo(PassLines, MaxPassLines)

InitPass ==
  /\ stream \in PassStreams
  /\ InitSuite
  /\ InitTests
  /\ InitAlone
  /\ InitNoRaw
  /\ InitNoReg

\* the lines that the test method read for the test case of log[i]
Payload(i) == (log[i].pos + 1)..(log[i].pos + extraLines(log[i].text))
\* they exist and none of them is a name marker
OwnPayload(i) ==
  /\ Payload(i) # {}
  /\ \A j \in Payload(i) : j <= Len(stream) /\ ~IsMarkerLine(stream[j])
\* the data lines of the block of log[i] after its payload
AfterPayload(i) ==
  {d \in DataLines : d > log[i].pos + extraLines(log[i].text)
                     /\ BlockOf(d) = BlockOf(log[i].pos)}

\* C30: when a test method reads k lines of its own block, none of them a name
\* marker, through the line source it is given, those lines are never applied
\* as test cases, the next test case is the first data line of the block after
\* them, the line counter of the TestSuite object is the number of lines taken
\* from the stream, and every test case is logged with the 1-based index in
\* the stream of the line it was read from.
C30_PassThrough ==
  runs = 1 =>
    /\ \A i \in Cases :
         OwnPayload(i) =>
           /\ \A k \in Cases : log[k].pos \notin Payload(i)
           /\ i < Len(log) =>
                /\ (i + 1) \in Cases <=> AfterPayload(i) # {}
                /\ (i + 1) \in Cases => log[i + 1].pos = Min(AfterPayload(i))
    /\ \A i \in Cases : log[i].line = log[i].pos
    /\ pc # "idle" => lineCounter = dataPos

SpecPass == InitPass /\ [][Next]_vars

-----------------------------------------------------------------------------
(* Termination of the public operations.  The code is single-threaded and    *)
(* synchronous: an operation that was called keeps taking steps until it     *)
(* returns, whence the weak fairness of its steps.                           *)

MaxLiveLines == 3

LiveLines ==
  {MarkerA, MarkerG, CommentLine, CasePass, CaseAbortThis, CaseAbortAll, CaseReadOne}
LiveStreams == SeqsUpTo(LiveLines, MaxLiveLines)

InitLive ==
  /\ stream \in LiveStreams
  /\ InitSuite
  /\ InitTests
  /\ InitAlone
  /\ InitNoRaw
  /\ InitNoReg

\* the steps of an operation that was called
Run ==
  \/ RunTestsNoTests
  \/ RunTestsFirstName
  \/ LoopSkip
  \/ LoopRunTest
  \/ LoopExit
  \/ RunTestCase
  \/ RunTestReturn
  \/ Finish

SpecLive == InitLive /\ [][Next]_vars /\ WF_vars(Run)

\* the step takes at least one line from the stream, or the buffered lookahead
Consumed == dataPos' > dataPos \/ (lastLineRead # NULL /\ lastLineRead' = NULL)
\* a step that calls readTestName
SeekNameStep == pc # "idle" /\ namesRead' # namesRead
\* a step that calls readTestCase
RunBlockStep == pc' = "runTest"

-----------------------------------------------------------------------------
(* Statistics of an operation *)

\* the test cases of the operation whose test method did not return pass
NotPassed == {i \in Cases : ResultOf(i) # Pass}
\* the test cases of the operation that the statistics have taken in: those
\* of the blocks that runTest has left
Folded == IF pc = "runTest" THEN Cardinality(Cases) - testCaseNum ELSE Cardinality(Cases)
FoldedFailed ==
  IF pc = "runTest" THEN Cardinality(NotPassed) - numFailedTestCases
  ELSE Cardinality(NotPassed)

\* C31: when an operation ends, the total of test cases is the number of calls
\* of test methods made in the operation and the total of failed test cases is
\* the number of those calls that did not return pass (fail, abortThisTest and
\* abortAllTests count one each); both totals are zero when runTests is
\* entered, and the counts of every block that runTest has left, by an abort
\* as well, are in the totals.
C31_TotalsCountCalls ==
  /\ pc = "runTests" => totalTestCases = 0 /\ totalFailedTestCases = 0
  /\ pc # "idle" => totalTestCases = Folded /\ totalFailedTestCases = FoldedFailed
  /\ Finished =>
       /\ totalTestCases = Cardinality(Cases)
       /\ totalFailedTestCases = Cardinality(NotPassed)

\* a second operation on the object, with a block ended by abortAllTests
\* after a case that passed
C31_Witness ==
  /\ Finished
  /\ runs = 2
  /\ HasHook("logAllTestsAborted")
  /\ totalTestCases = 2
  /\ totalFailedTestCases = 1
  /\ prev # NULL /\ Deref(prev).cases > 0

-----------------------------------------------------------------------------
(* Per-test headers and footers *)

IsHeader(i) == log[i].hook = "logTestHeader"
IsFooter(i) == log[i].hook = "logTestFooter"
\* the events that open or close something
Brackets == {i \in 1..Len(log) : log[i].hook \in {"logTestHeader", "logTestFooter", "logFooter"}}
\* the first bracket after log[i], 0 when there is none
NextBracket(i) == Min({j \in Brackets : j > i} \cup {Len(log) + 1}) % (Len(log) + 1)
\* the last per-test header or footer before log[i], 0 when there is none
PrevBracket(i) == Max({j \in Brackets : j < i} \cup {0})
\* the test cases logged after log[i] and before log[j]
CasesBetween(i, j) == {c \in Cases : i < c /\ c < j}

\* the names that the operation read and has dealt with, in the order read
NamesDone == IF pc = "loop" /\ ~abortAll THEN SubSeq(namesRead, 1, Len(namesRead) - 1)
             ELSE namesRead
RECURSIVE SelectedNames(_)
\* those of ns that are names of tests of the selection
SelectedNames(ns) ==
  IF ns = <<>> THEN <<>>
  ELSE (IF getTest(Head(ns), tests) # NULL THEN <<Head(ns)>> ELSE <<>>)
       \o SelectedNames(Tail(ns))
\* the names of the per-test headers of the log, in the order logged
RECURSIVE HeaderNames(_)
HeaderNames(events) ==
  IF events = <<>> THEN <<>>
  ELSE (IF Head(events).hook = "logTestHeader" THEN <<Head(events).name>> ELSE <<>>)
       \o HeaderNames(Tail(events))

\* every per-test header is followed by the test cases of its test and, after
\* an abort, the abort notice, then by one per-test footer for the same test
\* whose counts are the number of those test cases and the number of them that
\* did not pass; the headers are those of the names read that are names of
\* tests of the selection
TranscriptBalanced ==
  /\ \A i \in 1..Len(log) :
       IsHeader(i) =>
         LET j == NextBracket(i)
         IN /\ \A c \in (i + 1)..((IF j = 0 THEN Len(log) + 1 ELSE j) - 1) :
                 /\ IsCase(log[c]) \/ log[c].hook \in AbortNotices
                 /\ IsCase(log[c]) => log[c].name = log[i].name
                 /\ log[c].hook \in AbortNotices => c + 1 = j \/ (j = 0 /\ c = Len(log))
            /\ IF j = 0
                 THEN pc = "runTest" /\ Deref(test).name = log[i].name
                 ELSE /\ IsFooter(j)
                      /\ log[j].name = log[i].name
                      /\ log[j].num = Cardinality(CasesBetween(i, j))
                      /\ log[j].failed = Cardinality(CasesBetween(i, j) \cap NotPassed)
  /\ \A j \in 1..Len(log) :
       (IsFooter(j) \/ IsCase(log[j])) => PrevBracket(j) # 0 /\ IsHeader(PrevBracket(j))
  /\ pc = "runTest" => NextBracket(Max({i \in 1..Len(log) : IsHeader(i)} \cup {0})) = 0
  /\ pc # "idle" => HeaderNames(log) = SelectedNames(NamesReturned(NamesDone))

\* C32: per-test headers and footers are balanced.  Every header is closed by
\* one footer that gives the counts of the test cases between them, after an
\* abort of either kind and for a block without test cases as well; headers
\* are logged only for names of tests of the selection, and in one operation a
\* name has never more headers than the stream has blocks of that name: every
\* block that is run has exactly one header and one footer.
C32_HeadersAndFootersBalanced ==
  /\ TranscriptBalanced
  /\ \A i \in 1..Len(log) :
       IsHeader(i) => Headers(log[i].name) <= Cardinality(MarkersNamed(log[i].name))


-----------------------------------------------------------------------------
(* The lookahead of the TestData object at the start of an operation *)

\* C33: when runTests is entered, after prepareForTesting has reset the test
\* data, no line read ahead in an earlier operation is buffered, and the first
\* name that readTestName returns in the operation is the name of the first
\* name marker of the stream (none when the stream has no marker), whatever
\* operations came before, those ended by abortAllTests included.
C33_NoStaleLookahead ==
  /\ pc = "runTests" => lastLineRead = NULL
  /\ (pc # "idle" /\ namesRead # <<>>) =>
       namesRead[1].name = (IF Markers = {} THEN NULL
                            ELSE Ptr(MarkerName(stream[Min(Markers)])))

\* C34: the assertion of readTestCase that no line is buffered holds at every
\* call that runTest makes, whatever the stream, the results of the test
\* methods and the operations before: a step that calls readTestCase starts
\* with no line buffered, and a buffered name marker is never replaced by
\* another line, it is only taken by the next readTestName.
C34_NoLookaheadAtReadTestCase ==
  /\ [][RunBlockStep => lastLineRead = NULL]_vars
  /\ [][lastLineRead # NULL /\ lastLineRead' # lastLineRead =>
          /\ lastLineRead' = NULL
          /\ Len(namesRead') = Len(namesRead) + 1
          /\ namesRead'[Len(namesRead')].last = lastLineRead
          /\ namesRead'[Len(namesRead')].name =
               Ptr(MarkerName(Deref(lastLineRead)))]_vars

\* a second operation in which readTestName took a buffered marker, after a
\* first one that left a marker buffered
C34_Witness ==
  /\ Finished
  /\ runs = 2
  /\ Len(namesRead) >= 2
  /\ namesRead[1].last # NULL
  /\ \E i \in 2..Len(namesRead) : namesRead[i].last # NULL
  /\ Cardinality(Cases) >= 1

-----------------------------------------------------------------------------
(* Names given more than once: a program with two test objects whose name() *)
(* is a, and group() called with a name repeated                             *)

MaxDupLines == 3

DupLines == {MarkerA, MarkerB, CasePass, CaseAbortAll}
DupStreams == SeqsUpTo(DupLines, MaxDupLines)

\* the test objects of that program, in the order of their construction
DupDeclaredTests == <<TestObject(NameA), TestObject(NameB), TestObject(NameA)>>
DupGroupArgs == {<<NameA, NameA>>, <<NameB, NameA, NameB>>, <<NameG, NameG>>}

\* all() in that program: runTests(_tests)
allDup == Begin(OpAll, [tests |-> RegisterAll(DupDeclaredTests, <<>>), log |-> <<>>])

InitDup ==
  /\ stream \in DupStreams
  /\ InitSuite
  /\ InitTests
  /\ InitAlone
  /\ InitNoRaw
  /\ InitNoReg

NextDup ==
  \/ \E ns \in DupGroupArgs : group(ns)
  \/ allDup
  \/ RunTestsNoTests
  \/ RunTestsFirstName
  \/ LoopSkip
  \/ LoopRunTest
  \/ LoopExit
  \/ RunTestCase
  \/ RunTestReturn
  \/ Finish

SpecDup == InitDup /\ [][NextDup]_vars

\* the markers of the name n among the lines that the operation has read
MarkersRead(n) == {m \in MarkersNamed(n) : m <= dataPos}

\* C35: within one operation no data line of the stream is given to a test
\* method more than once, and no block is run more than once (a name has a
\* per-test header for at most each of its markers that the operation has
\* read), also when group is given a name several times or a name is
\* registered several times.
C35_AtMostOnce ==
  /\ \A i \in Cases : \A k \in Cases : i # k => log[i].pos # log[k].pos
  /\ \A i \in Cases : log[i].pos \in DataLines
  /\ \A i \in 1..Len(log) :
       IsHeader(i) => Headers(log[i].name) <= Cardinality(MarkersRead(log[i].name))

-----------------------------------------------------------------------------
(* A name registered more than once *)

\* the test object of the name n that was constructed last
Latest(n) == Max({k \in 1..built : declared[k] = n})

\* C36: when several test objects have one name, one, group and all agree on
\* the one that runs for a block of that name: every lookup of the name that
\* finds a test, in the registry or in the list of an operation, finds the
\* test object of that name that was registered last, the first match in the
\* order of the registry, and the list that one or group builds holds no other
\* test object of that name.
C36_LatestDefinitionRuns ==
  /\ looked # NULL =>
       (Deref(looked).result # NULL =>
          Deref(Deref(looked).result).id = Latest(Deref(looked).name))
  /\ regPc = "op" =>
       \A i \in 1..Len(selection) :
         regOp \in {"one", "group"} =>
           TestsIn(heap, selection)[i].id = Latest(TestsIn(heap, selection)[i].name)
  /\ (regPc = "op" /\ looked # NULL /\ Deref(looked).scope = TestsIn(heap, selection)) =>
       (Deref(looked).result # NULL <=>
          \E i \in 1..Len(selection) : TestsIn(heap, selection)[i].name = Deref(looked).name)

\* the name a has two test objects, with one of b between them: a lookup of a
\* in the list of group(a, a) and in the list of all() finds the third object
C36_Witness ==
  /\ regPc = "op"
  /\ declared = <<NameA, NameB, NameA>>
  /\ looked # NULL
  /\ Deref(looked).name = NameA
  /\ Deref(looked).scope = TestsIn(heap, selection)
  /\ Deref(looked).result = Ptr(TestAt(3))
  /\ \/ regOp = "group" /\ Len(selection) = 2
     \/ regOp = "all" /\ Len(selection) = 3

-----------------------------------------------------------------------------
(* The class invariant *)

\* TestSuite::assertInvariants: _log is the address of the ostream that the
\* constructor was given and is never NULL
assertInvariants ==
  /\ registry # NULL
  /\ totalTestCases >= totalFailedTestCases

\* the TestSuite object of main() exists: it is constructed when main() starts
\* and used until main() returns
InTestSuite == regPc \in {"main", "op"}

\* C37: the class invariant that assertInvariants asserts, the registry list
\* is not empty, holds wherever assertInvariants is called, from the
\* construction of the TestSuite object through every public operation,
\* whatever the number of test objects constructed before the TestSuite object.
C37_InvariantsHold == InTestSuite => assertInvariants

-----------------------------------------------------------------------------
(* The two overloads of group *)

MaxGrpLines == 3

GrpLines == {MarkerA, MarkerB, CasePass, CaseFail}
GrpStreams == SeqsUpTo(GrpLines, MaxGrpLines)
\* the names given to group, as main() gives them
GrpArgs ==
  {<<NameA>>, <<NameG>>, <<NameB, NameA>>, <<NameG, NameB>>, <<NameA, NameG, NameA>>}

InitGrp ==
  /\ stream \in GrpStreams
  /\ InitSuite
  /\ InitTests
  /\ InitAlone
  /\ InitNoRaw
  /\ InitNoReg

NextGrp ==
  \/ \E ns \in GrpArgs : group(ns)
  \/ \E ns \in GrpArgs : groupVa(ns)
  \/ RunTestsNoTests
  \/ RunTestsFirstName
  \/ LoopSkip
  \/ LoopRunTest
  \/ LoopExit
  \/ RunTestCase
  \/ RunTestReturn
  \/ Finish

SpecGrp == InitGrp /\ [][NextGrp]_vars

\* a step in which group is called
GroupCalled == pc = "idle" /\ pc' = "runTests" /\ op'.kind = "group"

\* C38: the two overloads of group are equivalent.  For the same names in the
\* same order, given as an array with its length or as arguments ended by
\* NULL, getTests returns the same list of tests and logs the same unknown
\* names in the same order, and the TestSuite object is in the same state when
\* runTests is entered, so that the calls of test methods, the statistics and
\* the transcript of the operation are the same.
C38_GroupOverloadsAgree ==
  [][GroupCalled =>
       LET byArray == getTests(op'.names, <<>>, <<>>)
           byVa == getTestsVa(Ptr(op'.names[1]), VaArgs(op'.names), <<>>, <<>>)
       IN /\ byArray = byVa
          /\ tests' = byVa.tests
          /\ log' = <<logHeader>> \o byVa.log
          /\ totalTestCases' = 0 /\ totalFailedTestCases' = 0
          /\ dataPos' = 0 /\ lineCounter' = 0]_vars

\* group with an unknown name between two requests of a has run to its end,
\* with test cases applied
C38_Witness ==
  /\ Finished
  /\ op = OpGroup(<<NameA, NameG, NameA>>)
  /\ tests = <<TestObject(NameA), TestObject(NameA)>>
  /\ log[2] = logUnknownTestName(NameG)
  /\ Cardinality(Cases) = 2

Spec == Init /\ [][Next]_vars

====
